---- MODULE Spec2Model ----
(***************************************************************************)
(* ProgramTimer (src/src/timer.py): a registry of nested, named, timed     *)
(* events whose hierarchy is inferred from creation order and the          *)
(* open/closed state of earlier events, plus an append-only error log and  *)
(* a textual summary.                                                      *)
(*                                                                         *)
(* Text is modelled as a sequence of lines; a line is a sequence of string *)
(* fragments whose concatenation is the line (so the indentation of a line *)
(* is its number of leading "   " fragments).  The clock counts tenths of  *)
(* a second, the resolution '{0:.1f}' prints.                              *)
(***************************************************************************)
EXTENDS Integers, Sequences, FiniteSets, TLC

\* ---- bounds of the model ------------------------------------------------
MaxEvents == 3
MaxErrors == 1
MaxTime == 1

\* ---- inputs ---------------------------------------------------------------
Names == {"outer", "inner"}
Headers == {"None", "Run"}
Methods == {"parse"}
DataIDs == {"row42"}
Infos == {"bad id"}

\* Python's None, for Event.pid, Event.__end and return values.
None == -1

VARIABLES
    events,     \* ProgramTimer._events: dict uid -> Event
    errors,     \* ProgramTimer.errors: the rows of the DataFrame, in order
    ud_start,   \* ProgramTimer._ud_start
    ud_end,     \* ProgramTimer._ud_end
    now,        \* the value time.time() returns, in tenths of a second
    call,       \* the most recent call on the timer
    ret,        \* what that call returned (None when it raised)
    raised,     \* whether that call raised an exception
    printed,    \* the lines that call wrote to standard output
    mt          \* two callers and the timers they use (see SpecCallers)

vars == <<events, errors, ud_start, ud_end, now, call, ret, raised, printed,
          mt>>

\* ---- Event ----------------------------------------------------------------
\* Event.__init__: __start = time.time(), __end = None.
Event(name, uid, hrchy, pid, t) ==
    [name |-> name, uid |-> uid, hrchy |-> hrchy, pid |-> pid,
     start |-> t, end |-> None]

\* Event.end: sets the end time, whatever it was.
Event_end(e, t) == [e EXCEPT !.end = t]

is_open(e) == IF e.end = None THEN TRUE ELSE FALSE

\* mutant: the end time is not used
seconds_to_now(e, t) == t - e.start

seconds(e, t) == IF e.end = None THEN t - e.start ELSE e.end - e.start

\* ---- ProgramTimer helpers -------------------------------------------------
event_count(ev) == Cardinality(DOMAIN ev)

RECURSIVE scan_down(_, _)
\* the loop "for i in range(count, 0, -1)" from index i downwards
scan_down(ev, i) ==
    IF i <= 0 THEN None
    ELSE IF is_open(ev[i]) THEN ev[i].uid
    ELSE scan_down(ev, i - 1)

RECURSIVE scan_up(_, _)
scan_up(ev, i) ==
    IF i > event_count(ev) THEN None
    ELSE IF is_open(ev[i]) THEN ev[i].uid
    ELSE scan_up(ev, i + 1)

\* mutant: the scan runs in ascending id order
prior_open_event_id_ascending(ev) ==
    IF event_count(ev) = 0 THEN None ELSE scan_up(ev, 1)

\* mutant: the scan takes the most recently created event, open or not
prior_open_event_id_latest(ev) ==
    IF event_count(ev) = 0 THEN None ELSE ev[event_count(ev)].uid

prior_open_event_id(ev) ==
    IF event_count(ev) = 0 THEN None ELSE scan_down(ev, event_count(ev))

\* ---- several timers ----------------------------------------------------
Callers == {1, 2}

\* mutant: _events is one dict shared by every instance
timer_of_class_level(mode, c) == 1

\* the ProgramTimer instance caller c uses: the one shared timer, or the
\* timer c constructed for itself, whose __init__ gave it its own _events
timer_of(mode, c) == IF mode = "shared" THEN 1 ELSE c

\* the callers and their timers before any call: per timer the events, who
\* started each and who ended it (0: nobody yet); per caller its number of
\* start() calls not yet matched by an end() call of its own
mt_init(mode) ==
    [mode |-> mode,
     regs |-> [r \in Callers |-> << >>],
     owner |-> [r \in Callers |-> << >>],
     closer |-> [r \in Callers |-> << >>],
     pending |-> [c \in Callers |-> 0],
     raised |-> FALSE]

\* ---- text -----------------------------------------------------------------
RECURSIVE Repeat(_, _)
\* Python's  n * s  as n fragments s
Repeat(s, n) == IF n <= 0 THEN << >> ELSE <<s>> \o Repeat(s, n - 1)

\* '{0:.1f}'.format(x) for x = t tenths of a second
format_1f(t) == ToString(t \div 10) \o "." \o ToString(t % 10)

SECTION_DIVIDE == <<"*************************************">>
default_header == "Program Execution Summary"
start_ud_pre_txt == "Started: "
start_ud_post_txt == "..."
end_ud_pre_txt == "Finished: "
end_ud_post_txt == "."

\* mutant: one unit of blank space too many
create_event_summary_indent_hrchy(event, t) ==
    LET blank_space == Repeat("   ", event.hrchy)
    IN  blank_space \o <<event.name>> \o <<": ", format_1f(seconds(event, t)), "s">>

create_event_summary(event, t) ==
    LET blank_space == Repeat("   ", event.hrchy - 1)
    IN  blank_space \o <<event.name>> \o <<": ", format_1f(seconds(event, t)), "s">>

\* mutant: the Exceptions section is added whether or not errors were logged
errors_were_logged_always(errs) == TRUE

errors_were_logged(errs) == ~ (Len(errs) = 0)

\* DataFrame.to_string(index=False): a row of column names, then a row per record
to_string(errs) ==
    <<  <<"Method", "DataID", "ErrDescription">>  >>
    \o [i \in 1..Len(errs) |->
            <<errs[i].Method, errs[i].DataID, errs[i].ErrDescription>>]

\* mutant: only the events that were ended get a line
summary_text_closed_only(ev, errs, header, t) ==
    LET hdr == IF header = "None" THEN default_header ELSE header
        closed == SelectSeq([i \in 1..event_count(ev) |-> ev[i]],
                            LAMBDA e : ~ is_open(e))
        event_lines == [i \in 1..Len(closed) |-> create_event_summary(closed[i], t)]
        head == << << >>, SECTION_DIVIDE, <<hdr>>, << >> >> \o event_lines
        body == IF errors_were_logged(errs)
                THEN head \o <<SECTION_DIVIDE, <<"Exceptions">>, << >> >>
                          \o to_string(errs)
                ELSE head \o << << >> >>
    IN  body \o <<SECTION_DIVIDE, << >> >>

\* the text print_summary builds, split at its newlines
summary_text(ev, errs, header, t) ==
    LET hdr == IF header = "None" THEN default_header ELSE header
        event_lines == [i \in 1..event_count(ev) |-> create_event_summary(ev[i], t)]
        head == << << >>, SECTION_DIVIDE, <<hdr>>, << >> >> \o event_lines
        body == IF errors_were_logged(errs)
                THEN head \o <<SECTION_DIVIDE, <<"Exceptions">>, << >> >>
                          \o to_string(errs)
                ELSE head \o << << >> >>
    IN  body \o <<SECTION_DIVIDE, << >> >>

\* ---- state ----------------------------------------------------------------
Init ==
    /\ events = << >>
    /\ errors = << >>
    /\ ud_start = TRUE      \* ProgramTimer(ud_start=True, ud_end=False),
    /\ ud_end = FALSE       \* as the pipeline constructs its timer
    /\ now = 0
    /\ call = [op |-> "__init__"]
    /\ ret = None
    /\ raised = FALSE
    /\ printed = << >>
    /\ mt = mt_init("separate")

\* time passes between calls
Tick ==
    /\ now < MaxTime
    /\ now' = now + 1
    /\ UNCHANGED <<events, errors, ud_start, ud_end, call, ret, raised, printed>>

\* mutant: the new event gets its parent's hrchy
start_same_hrchy(name) ==
    /\ event_count(events) < MaxEvents
    /\ LET new_id == event_count(events) + 1
           prior_open_id == prior_open_event_id(events)
           hrchy == IF prior_open_id = None THEN 1
                    ELSE events[prior_open_id].hrchy
           event == Event(name, new_id, hrchy, prior_open_id, now)
       IN  /\ events' = [k \in DOMAIN events \cup {new_id} |->
                            IF k = new_id THEN event ELSE events[k]]
           /\ printed' = IF ud_start
                         THEN << <<start_ud_pre_txt, name, start_ud_post_txt>> >>
                         ELSE << >>
    /\ call' = [op |-> "start"]
    /\ ret' = None
    /\ raised' = FALSE
    /\ UNCHANGED <<errors, ud_start, ud_end, now>>

\* mutant: the new id is the event count, not the count plus one
start_id_is_count(name) ==
    /\ event_count(events) < MaxEvents
    /\ LET new_id == event_count(events)
           prior_open_id == prior_open_event_id(events)
           hrchy == IF prior_open_id = None THEN 1
                    ELSE events[prior_open_id].hrchy + 1
           event == Event(name, new_id, hrchy, prior_open_id, now)
       IN  /\ events' = [k \in DOMAIN events \cup {new_id} |->
                            IF k = new_id THEN event ELSE events[k]]
           /\ printed' = IF ud_start
                         THEN << <<start_ud_pre_txt, name, start_ud_post_txt>> >>
                         ELSE << >>
    /\ call' = [op |-> "start"]
    /\ ret' = None
    /\ raised' = FALSE
    /\ UNCHANGED <<errors, ud_start, ud_end, now>>

\* ProgramTimer.start(name)
start(name) ==
    /\ event_count(events) < MaxEvents
    /\ LET new_id == event_count(events) + 1
           prior_open_id == prior_open_event_id(events)
           hrchy == IF prior_open_id = None THEN 1
                    ELSE events[prior_open_id].hrchy + 1
           event == Event(name, new_id, hrchy, prior_open_id, now)
       IN  /\ events' = [k \in DOMAIN events \cup {new_id} |->
                            IF k = new_id THEN event ELSE events[k]]
           /\ printed' = IF ud_start
                         THEN << <<start_ud_pre_txt, name, start_ud_post_txt>> >>
                         ELSE << >>
    /\ call' = [op |-> "start"]
    /\ ret' = None
    /\ raised' = FALSE
    /\ UNCHANGED <<errors, ud_start, ud_end, now>>

\* mutant: end() with nothing open returns silently
end_silent ==
    LET prior_open_id == prior_open_event_id(events)
    IN  /\ call' = [op |-> "end"]
        /\ ret' = None
        /\ raised' = FALSE
        /\ IF prior_open_id = None
           THEN /\ printed' = << >>
                /\ UNCHANGED events
           ELSE /\ events' = [events EXCEPT
                                 ![prior_open_id] = Event_end(@, now)]
                /\ printed' = IF ud_end
                              THEN << <<end_ud_pre_txt,
                                        events[prior_open_id].name,
                                        end_ud_post_txt>> >>
                              ELSE << >>
        /\ UNCHANGED <<errors, ud_start, ud_end, now>>

\* mutant: the notice of end() is switched by ud_start
end_notifies_on_ud_start ==
    LET prior_open_id == prior_open_event_id(events)
    IN  /\ call' = [op |-> "end"]
        /\ ret' = None
        /\ IF prior_open_id = None
           THEN /\ raised' = TRUE
                /\ printed' = << >>
                /\ UNCHANGED events
           ELSE /\ raised' = FALSE
                /\ events' = [events EXCEPT
                                 ![prior_open_id] = Event_end(@, now)]
                /\ printed' = IF ud_start
                              THEN << <<end_ud_pre_txt,
                                        events[prior_open_id].name,
                                        end_ud_post_txt>> >>
                              ELSE << >>
        /\ UNCHANGED <<errors, ud_start, ud_end, now>>

\* mutant: the event that is ended is taken out of the registry
end_removes_event ==
    LET prior_open_id == prior_open_event_id(events)
    IN  /\ call' = [op |-> "end"]
        /\ ret' = None
        /\ IF prior_open_id = None
           THEN /\ raised' = TRUE
                /\ printed' = << >>
                /\ UNCHANGED events
           ELSE /\ raised' = FALSE
                /\ events' = [k \in DOMAIN events \ {prior_open_id} |-> events[k]]
                /\ printed' = IF ud_end
                              THEN << <<end_ud_pre_txt,
                                        events[prior_open_id].name,
                                        end_ud_post_txt>> >>
                              ELSE << >>
        /\ UNCHANGED <<errors, ud_start, ud_end, now>>

\* mutant: an end() that finds nothing open ends the latest event again
\* before it raises
end_recloses_then_raises ==
    LET prior_open_id == prior_open_event_id(events)
    IN  /\ call' = [op |-> "end"]
        /\ ret' = None
        /\ IF prior_open_id = None
           THEN /\ raised' = TRUE
                /\ printed' = << >>
                /\ events' = IF events = << >> THEN events
                             ELSE [events EXCEPT ![event_count(events)] =
                                                    Event_end(@, now)]
           ELSE /\ raised' = FALSE
                /\ events' = [events EXCEPT
                                 ![prior_open_id] = Event_end(@, now)]
                /\ printed' = IF ud_end
                              THEN << <<end_ud_pre_txt,
                                        events[prior_open_id].name,
                                        end_ud_post_txt>> >>
                              ELSE << >>
        /\ UNCHANGED <<errors, ud_start, ud_end, now>>

\* ProgramTimer.end()
end ==
    LET prior_open_id == prior_open_event_id(events)
    IN  /\ call' = [op |-> "end"]
        /\ ret' = None
        /\ IF prior_open_id = None
           THEN /\ raised' = TRUE
                /\ printed' = << >>
                /\ UNCHANGED events
           ELSE /\ raised' = FALSE
                /\ events' = [events EXCEPT
                                 ![prior_open_id] = Event_end(@, now)]
                /\ printed' = IF ud_end
                              THEN << <<end_ud_pre_txt,
                                        events[prior_open_id].name,
                                        end_ud_post_txt>> >>
                              ELSE << >>
        /\ UNCHANGED <<errors, ud_start, ud_end, now>>

\* mutant: the events are not reset after the summary is built
print_summary_keeps_events(header) ==
    /\ call' = [op |-> "print_summary"]
    /\ ret' = None
    /\ raised' = FALSE
    /\ events' = events
    /\ UNCHANGED <<errors, ud_start, ud_end, now>>
    /\ printed' = summary_text(events, errors, header, now)

\* mutant: the error log is reset together with the events
print_summary_clears_errors(header) ==
    /\ call' = [op |-> "print_summary"]
    /\ ret' = None
    /\ raised' = FALSE
    /\ events' = << >>
    /\ errors' = << >>
    /\ UNCHANGED <<ud_start, ud_end, now>>
    /\ printed' = summary_text(events, errors, header, now)

\* mutant: the summary is built but not printed
print_summary_silent(header) ==
    /\ call' = [op |-> "print_summary"]
    /\ ret' = None
    /\ raised' = FALSE
    /\ events' = << >>
    /\ UNCHANGED <<errors, ud_start, ud_end, now>>
    /\ printed' = << >>

\* ProgramTimer.print_summary(header)
print_summary(header) ==
    /\ call' = [op |-> "print_summary"]
    /\ ret' = None
    /\ raised' = FALSE
    /\ events' = << >>
    /\ UNCHANGED <<errors, ud_start, ud_end, now>>
    /\ printed' = summary_text(events, errors, header, now)

\* mutant: a record equal to an earlier one is not appended again
log_err_dedup(method, data_id, info) ==
    /\ LET new_err == [Method |-> method, DataID |-> data_id,
                       ErrDescription |-> info]
       IN  errors' = IF \E i \in 1..Len(errors) : errors[i] = new_err
                     THEN errors
                     ELSE Append(errors, new_err)
    /\ call' = [op |-> "log_err"]
    /\ ret' = None
    /\ raised' = FALSE
    /\ printed' = << >>
    /\ UNCHANGED <<events, ud_start, ud_end, now>>

\* ProgramTimer.log_err(method, data_id, info)
log_err(method, data_id, info) ==
    /\ LET new_err == [Method |-> method, DataID |-> data_id,
                       ErrDescription |-> info]
       IN  errors' = Append(errors, new_err)
    /\ call' = [op |-> "log_err"]
    /\ ret' = None
    /\ raised' = FALSE
    /\ printed' = << >>
    /\ UNCHANGED <<events, ud_start, ud_end, now>>

Next ==
    \/ Tick /\ UNCHANGED mt
    \/ (\E name \in Names : start(name)) /\ UNCHANGED mt
    \/ end /\ UNCHANGED mt
    \/ (\E header \in Headers : print_summary(header)) /\ UNCHANGED mt
    \/ /\ \E method \in Methods, data_id \in DataIDs, info \in Infos :
             Len(errors) < MaxErrors /\ log_err(method, data_id, info)
       /\ UNCHANGED mt

Spec == Init /\ [][Next]_vars

\* ---- the notices: a timer constructed with any ud_start, ud_end ---------
InitNotify ==
    /\ events = << >>
    /\ errors = << >>
    /\ ud_start \in BOOLEAN
    /\ ud_end \in BOOLEAN
    /\ now = 0
    /\ call = [op |-> "__init__"]
    /\ ret = None
    /\ raised = FALSE
    /\ printed = << >>
    /\ mt = mt_init("separate")

NextNotify ==
    \/ Tick /\ UNCHANGED mt
    \/ (\E name \in Names : start(name)) /\ UNCHANGED mt
    \/ end /\ UNCHANGED mt
    \/ (\E header \in Headers : print_summary(header)) /\ UNCHANGED mt

SpecNotify == InitNotify /\ [][NextNotify]_vars

\* ---- the failing end(): any ud_start, ud_end, and a log that fills -------
MaxFailEvents == 2

NextFail ==
    \/ Tick /\ UNCHANGED mt
    \/ /\ \E name \in Names :
             event_count(events) < MaxFailEvents /\ start(name)
       /\ UNCHANGED mt
    \/ end /\ UNCHANGED mt
    \/ (\E header \in Headers : print_summary(header)) /\ UNCHANGED mt
    \/ /\ \E method \in Methods, data_id \in DataIDs, info \in Infos :
             Len(errors) < MaxErrors /\ log_err(method, data_id, info)
       /\ UNCHANGED mt

SpecFail == InitNotify /\ [][NextFail]_vars

\* ---- the error log on its own: records that differ, no events -----------
MaxLogErrors == 3
LogMethods == {"parse", "_get_item"}
LogInfos == {"bad id", "price"}

log_err_step ==
    \E method \in LogMethods, data_id \in DataIDs, info \in LogInfos :
        log_err(method, data_id, info)

NextLog ==
    \/ Len(errors) < MaxLogErrors /\ log_err_step /\ UNCHANGED mt
    \/ (\E header \in Headers : print_summary(header)) /\ UNCHANGED mt

SpecLog == Init /\ [][NextLog]_vars

\* ---- two callers, each with a well-nested sequence of its own ------------
MaxCallerEvents == 3
Modes == {"shared", "separate"}

\* what start(name) at time t makes of the events ev of a timer
registry_start(ev, name, t) ==
    LET new_id == event_count(ev) + 1
        prior_open_id == prior_open_event_id(ev)
        hrchy == IF prior_open_id = None THEN 1
                 ELSE ev[prior_open_id].hrchy + 1
        event == Event(name, new_id, hrchy, prior_open_id, t)
    IN  [k \in DOMAIN ev \cup {new_id} |-> IF k = new_id THEN event ELSE ev[k]]

\* what end() at time t makes of the events ev of a timer, whether it raised
\* and the id of the event it ended
registry_end(ev, t) ==
    LET prior_open_id == prior_open_event_id(ev)
    IN  IF prior_open_id = None
        THEN [raised |-> TRUE, events |-> ev, closed |-> None]
        ELSE [raised |-> FALSE,
              events |-> [ev EXCEPT ![prior_open_id] = Event_end(@, t)],
              closed |-> prior_open_id]

InitCallers ==
    /\ events = << >>
    /\ errors = << >>
    /\ ud_start = TRUE
    /\ ud_end = FALSE
    /\ now = 0
    /\ call = [op |-> "__init__"]
    /\ ret = None
    /\ raised = FALSE
    /\ printed = << >>
    /\ mt \in {mt_init(mode) : mode \in Modes}

\* caller c calls start(name) on its timer
caller_start(c, name) ==
    LET r == timer_of(mt.mode, c)
    IN  /\ event_count(mt.regs[r]) < MaxCallerEvents
        /\ mt' = [mt EXCEPT !.regs[r] = registry_start(@, name, now),
                            !.owner[r] = Append(@, c),
                            !.closer[r] = Append(@, 0),
                            !.pending[c] = @ + 1,
                            !.raised = FALSE]
        /\ UNCHANGED <<events, errors, ud_start, ud_end, now, call, ret,
                       raised, printed>>

\* caller c, with a start() of its own not yet matched, calls end() on its
\* timer
caller_end(c) ==
    LET r == timer_of(mt.mode, c)
        res == registry_end(mt.regs[r], now)
    IN  /\ mt.pending[c] > 0
        /\ mt' = [mt EXCEPT !.regs[r] = res.events,
                            !.closer[r] = IF res.raised THEN @
                                          ELSE [@ EXCEPT ![res.closed] = c],
                            !.pending[c] = @ - 1,
                            !.raised = res.raised]
        /\ UNCHANGED <<events, errors, ud_start, ud_end, now, call, ret,
                       raised, printed>>

NextCallers ==
    \/ \E c \in Callers, name \in Names : caller_start(c, name)
    \/ \E c \in Callers : caller_end(c)

SpecCallers == InitCallers /\ [][NextCallers]_vars

\* ---- the field helpers of data_prep.py, which log to the timer ------------
MaxPrepErrors == 3

\* np.NaN, and the value of a field that is present and well-formed
NaN == -2
FieldValue == 0

\* a row of the business JSON, by the condition of the fields the helpers
\* read: "missing" (no such key), "bad" (a value the helper cannot use, such
\* as null), "empty" (an empty list) or "ok"
Rows ==
    [id : {"b1"},
     categories : {"ok", "empty", "missing", "bad"},
     url : {"ok", "missing"},
     phone : {"ok", "missing"},
     price : {"ok", "missing", "bad"},
     coordinates : {"ok", "missing", "bad"}]
Flds == {"url", "phone"}
Coords == {"latitude", "longitude"}

\* the call log.log_err(*args): log_err takes method, data_id and info, and a
\* call with fewer arguments raises TypeError before the log is touched
call_log_err(errs, args) ==
    IF Len(args) = 3
    THEN [raised |-> FALSE,
          errors |-> Append(errs, [Method |-> args[1], DataID |-> args[2],
                                   ErrDescription |-> args[3]])]
    ELSE [raised |-> TRUE, errors |-> errs]

\* _get_categories(row)
get_categories(row) ==
    /\ Len(errors) < MaxPrepErrors
    /\ call' = [op |-> "_get_categories"]
    /\ IF row.categories \in {"missing", "bad"}
       THEN \* the bare except: log.log_err('_get_categories', row['id'])
            LET res == call_log_err(errors, <<"_get_categories", row.id>>)
            IN  /\ errors' = res.errors
                /\ raised' = res.raised
                /\ ret' = IF res.raised THEN None ELSE NaN
       ELSE /\ errors' = errors
            /\ raised' = FALSE
            /\ ret' = IF row.categories = "empty" THEN NaN ELSE FieldValue
    /\ printed' = << >>
    /\ UNCHANGED <<events, ud_start, ud_end, now, mt>>

\* _get_item(row, fld)
get_item(row, fld) ==
    /\ Len(errors) < MaxPrepErrors
    /\ call' = [op |-> "_get_item"]
    /\ IF row[fld] = "missing"
       THEN \* except KeyError: log.log_err('_get_item', row['id'], fld)
            LET res == call_log_err(errors, <<"_get_item", row.id, fld>>)
            IN  /\ errors' = res.errors
                /\ raised' = res.raised
                /\ ret' = IF res.raised THEN None ELSE NaN
       ELSE /\ errors' = errors
            /\ raised' = FALSE
            /\ ret' = FieldValue
    /\ printed' = << >>
    /\ UNCHANGED <<events, ud_start, ud_end, now, mt>>

\* _get_price(row)
get_price(row) ==
    /\ Len(errors) < MaxPrepErrors
    /\ call' = [op |-> "_get_price"]
    /\ IF row.price = "missing"
       THEN \* except KeyError: log.log_err('_get_price', row['id'], 'price')
            LET res == call_log_err(errors, <<"_get_price", row.id, "price">>)
            IN  /\ errors' = res.errors
                /\ raised' = res.raised
                /\ ret' = None
       ELSE IF row.price = "bad"
       THEN \* .count on a value that is no str: AttributeError, not caught
            /\ errors' = errors
            /\ raised' = TRUE
            /\ ret' = None
       ELSE /\ errors' = errors
            /\ raised' = FALSE
            /\ ret' = FieldValue
    /\ printed' = << >>
    /\ UNCHANGED <<events, ud_start, ud_end, now, mt>>

\* _get_coord(row, coord)
get_coord(row, coord) ==
    /\ Len(errors) < MaxPrepErrors
    /\ call' = [op |-> "_get_coord"]
    /\ IF row.coordinates \in {"missing", "bad"}
       THEN \* the bare except: log.log_err('_get_coord', row['id'], coord)
            LET res == call_log_err(errors, <<"_get_coord", row.id, coord>>)
            IN  /\ errors' = res.errors
                /\ raised' = res.raised
                /\ ret' = IF res.raised THEN None ELSE NaN
       ELSE /\ errors' = errors
            /\ raised' = FALSE
            /\ ret' = FieldValue
    /\ printed' = << >>
    /\ UNCHANGED <<events, ud_start, ud_end, now, mt>>

NextPrep ==
    \/ \E row \in Rows : get_categories(row)
    \/ \E row \in Rows, fld \in Flds : get_item(row, fld)
    \/ \E row \in Rows : get_price(row)
    \/ \E row \in Rows, coord \in Coords : get_coord(row, coord)

SpecPrep == Init /\ [][NextPrep]_vars

\* ---- helpers of the properties ------------------------------------------
OpenIds(ev) == {i \in DOMAIN ev : ev[i].end = None}

MaxOf(S) == CHOOSE x \in S : \A y \in S : y <= x

start_step == \E name \in Names : start(name)

print_summary_step == \E header \in Headers : print_summary(header)

\* C1: in a well-nested sequence of start/end calls, the depth (hrchy) stored
\* in a span equals 1 plus the number of spans open at the moment it was
\* started, and is kept for as long as the span is registered.
C1_DepthIsNestingDepth ==
    [][ /\ start_step =>
              \A i \in DOMAIN events' \ DOMAIN events :
                  events'[i].hrchy = 1 + Cardinality(OpenIds(events))
        /\ \A i \in DOMAIN events \cap DOMAIN events' :
              events'[i].hrchy = events[i].hrchy ]_vars

\* start, start, end, start: the third span is a sibling of the closed second
\* one, nested under the first.
C1_Witness ==
    /\ call.op = "start"
    /\ event_count(events) = 3
    /\ is_open(events[1]) /\ ~ is_open(events[2]) /\ is_open(events[3])
    /\ events[3].hrchy = 2

\* C2: end() raises exactly when no span is open, be the registry empty or
\* all of its spans closed; with a span open it succeeds.
C2_EndRaisesIffNothingOpen ==
    [][ end => (raised' <=> OpenIds(events) = {}) ]_vars

\* start("A"), end(), end(): the second end() has raised.
C2_Witness ==
    /\ call.op = "end"
    /\ raised
    /\ event_count(events) = 1
    /\ ~ is_open(events[1])

\* C3: a successful end() closes the open span with the highest id and no
\* other; that span is the one a start() in the same state takes as parent.
C3_EndClosesLatestOpen ==
    [][ (end /\ ~ raised') =>
            LET m == MaxOf(OpenIds(events))
            IN  /\ OpenIds(events) # {}
                /\ m = prior_open_event_id(events)
                /\ DOMAIN events' = DOMAIN events
                /\ ~ is_open(events'[m])
                /\ \A i \in DOMAIN events \ {m} : events'[i] = events[i] ]_vars

\* start, start, end, start, end: the last end() closed span 3, not span 1.
C3_Witness ==
    /\ call.op = "end"
    /\ ~ raised
    /\ event_count(events) = 3
    /\ is_open(events[1]) /\ ~ is_open(events[2]) /\ ~ is_open(events[3])
    /\ events[3].pid = 1

\* C4: print_summary leaves the registry empty whatever it held, and a
\* start() on an empty registry creates span 1 with depth 1 and no parent.
C4_SummaryClearsRegistry ==
    [][ /\ print_summary_step => events' = << >>
        /\ (start_step /\ event_count(events) = 0) =>
              /\ DOMAIN events' = {1}
              /\ events'[1].uid = 1
              /\ events'[1].hrchy = 1
              /\ events'[1].pid = None ]_vars

\* a summary that lists a span at depth 3 has just emptied the registry.
C4_Witness ==
    /\ call.op = "print_summary"
    /\ events = << >>
    /\ \E k \in 1..Len(printed) :
          Len(printed[k]) > 2 /\ printed[k][1] = "   " /\ printed[k][2] = "   "

\* C5: print_summary leaves the error log as it was, and the text it prints
\* has a row for every record of the log.
C5_SummaryKeepsErrors ==
    /\ [][ print_summary_step => errors' = errors ]_vars
    /\ [](call.op = "print_summary" =>
            \A i \in 1..Len(errors) :
                \E k \in 1..Len(printed) :
                    printed[k] = <<errors[i].Method, errors[i].DataID,
                                   errors[i].ErrDescription>>)

C5_Witness ==
    /\ call.op = "print_summary"
    /\ Len(errors) > 0
    /\ \E k \in 1..Len(printed) : printed[k] = <<"Exceptions">>

\* C6: a span without parent has depth 1; any other span has a parent in the
\* registry and depth one more than its parent's.
C6_DepthFollowsParent ==
    \A i \in DOMAIN events :
        IF events[i].pid = None
        THEN events[i].hrchy = 1
        ELSE /\ events[i].pid \in DOMAIN events
             /\ events[i].hrchy = events[events[i].pid].hrchy + 1

C6_Witness ==
    \E i \in DOMAIN events :
        /\ events[i].pid # None
        /\ events[events[i].pid].pid # None
        /\ events[i].hrchy = 3

\* C7: the ids of the registry are 1..n, each span filed under its own uid;
\* start() adds id n+1, and but for print_summary no step removes or
\* renumbers a span.
C7_IdsAreOneToN ==
    /\ [](/\ DOMAIN events = 1..event_count(events)
          /\ \A i \in DOMAIN events : events[i].uid = i)
    /\ [][ /\ start_step =>
                DOMAIN events' = DOMAIN events \cup {event_count(events) + 1}
           /\ ~ print_summary_step =>
                /\ DOMAIN events \subseteq DOMAIN events'
                /\ \A i \in DOMAIN events :
                      /\ events'[i].uid = events[i].uid
                      /\ events'[i].name = events[i].name ]_vars

C7_Witness ==
    /\ call.op = "start"
    /\ DOMAIN events = {1, 2, 3}
    /\ ~ is_open(events[1])

\* C8 as stated: start() returns the id of the span it created, the registry
\* size before the call plus 1.
C8_StartReturnsId ==
    [][ start_step => ret' = event_count(events) + 1 ]_vars

\* C8 amended: start() files the span it creates under the id (registry size
\* before the call + 1) and returns None.
C8_StartCreatesIdReturnsNone ==
    [][ \A name \in Names : start(name) =>
            LET new_id == event_count(events) + 1
            IN  /\ new_id \in DOMAIN events'
                /\ new_id \notin DOMAIN events
                /\ events'[new_id].uid = new_id
                /\ events'[new_id].name = name
                /\ ret' = None ]_vars

C8_Witness ==
    /\ call.op = "start"
    /\ ret = None
    /\ event_count(events) = 2
    /\ events[2].uid = 2

\* C9: an end time, once set, stays as it is for as long as the span is
\* registered.
C9_EndOnce ==
    [][ \A i \in DOMAIN events \cap DOMAIN events' :
            events[i].end # None => events'[i].end = events[i].end ]_vars

\* start, start, end, tick, end: span 1 was closed later than span 2, which
\* kept its end time.
C9_Witness ==
    /\ call.op = "end"
    /\ ~ raised
    /\ event_count(events) = 2
    /\ events[2].pid = 1
    /\ events[2].end # None
    /\ events[1].end > events[2].end

\* the lines of a summary that describe events: "<blank><name>: <secs>s"
EventLines(text) ==
    SelectSeq(text, LAMBDA l : /\ Len(l) >= 4
                               /\ l[Len(l)] = "s"
                               /\ l[Len(l) - 2] = ": ")

RECURSIVE Indentation(_)
\* the number of leading three-space units of a line
Indentation(l) ==
    IF l # << >> /\ Head(l) = "   " THEN 1 + Indentation(Tail(l)) ELSE 0

\* C10: the summary has one line per registered span, in ascending id order,
\* each indented by (depth - 1) units of three spaces and then naming the span.
C10_SummaryLines ==
    [][ print_summary_step =>
            LET lines == EventLines(printed')
            IN  /\ Len(lines) = event_count(events)
                /\ \A i \in 1..Len(lines) :
                      /\ Indentation(lines[i]) = events[i].hrchy - 1
                      /\ Len(lines[i]) = events[i].hrchy - 1 + 4
                      /\ lines[i][events[i].hrchy] = events[i].name ]_vars

\* start("outer"), start("inner"), end(), end(), print_summary
C10_Witness ==
    /\ call.op = "print_summary"
    /\ Len(EventLines(printed)) = 2
    /\ EventLines(printed)[1][1] = "outer"
    /\ Indentation(EventLines(printed)[2]) = 1
    /\ EventLines(printed)[2][2] = "inner"

\* the part of a summary below its "Exceptions" title: the table that
\* to_string printed, without the closing divider
ExceptionsTable(text) ==
    LET k == CHOOSE j \in 1..Len(text) : text[j] = <<"Exceptions">>
    IN  SubSeq(text, k + 2, Len(text) - 2)

HasExceptionsSection(text) == \E j \in 1..Len(text) : text[j] = <<"Exceptions">>

\* C11: the summary has an Exceptions section exactly when the error log is
\* not empty, and the section's table has, below its column titles, one row
\* (method, subject, description) per record, in the order of the log.
C11_ErrorSection ==
    [][ print_summary_step =>
            /\ HasExceptionsSection(printed') <=> Len(errors) > 0
            /\ Len(errors) > 0 =>
                  LET table == ExceptionsTable(printed')
                  IN  /\ Len(table) = 1 + Len(errors)
                      /\ \A i \in 1..Len(errors) :
                            table[i + 1] = <<errors[i].Method, errors[i].DataID,
                                             errors[i].ErrDescription>> ]_vars

\* log_err("parse", "row42", "bad id") then print_summary("Run"), no span
\* started: a header, no event line, one error row with the recorded fields.
C11_Witness ==
    /\ call.op = "print_summary"
    /\ printed[3] = <<"Run">>
    /\ EventLines(printed) = << >>
    /\ HasExceptionsSection(printed)
    /\ ExceptionsTable(printed) =
          << <<"Method", "DataID", "ErrDescription">>,
             <<"parse", "row42", "bad id">> >>

\* C12: log_err does not raise and appends exactly one record, the one it was
\* given, at the end of the log; the earlier records stay as and where they
\* were, and a record equal to an earlier one is appended all the same.
C12_LogErrAppends ==
    [][ \A method \in LogMethods, data_id \in DataIDs, info \in LogInfos :
            log_err(method, data_id, info) =>
                /\ ~ raised'
                /\ Len(errors') = Len(errors) + 1
                /\ SubSeq(errors', 1, Len(errors)) = errors
                /\ errors'[Len(errors')] =
                      [Method |-> method, DataID |-> data_id,
                       ErrDescription |-> info] ]_vars

\* three calls, the third with the fields of the first: three records
C12_Witness ==
    /\ call.op = "log_err"
    /\ Len(errors) = 3
    /\ errors[1] = errors[3]
    /\ errors[1] # errors[2]

\* C13 as stated: print_summary returns the text block it prints.
C13_SummaryReturnsText ==
    [][ print_summary_step => (ret' # None /\ ret' = printed') ]_vars

\* C13 amended: print_summary prints the text block, titled with the header
\* it was given or else the default header, and returns None.
C13_SummaryPrintsReturnsNone ==
    [][ \A header \in Headers : print_summary(header) =>
            /\ ret' = None
            /\ Len(printed') >= 7
            /\ printed'[2] = SECTION_DIVIDE
            /\ printed'[3] = <<IF header = "None" THEN default_header
                               ELSE header>>
            /\ printed'[Len(printed') - 1] = SECTION_DIVIDE ]_vars

C13_Witness ==
    /\ call.op = "print_summary"
    /\ ret = None
    /\ Len(printed) >= 7
    /\ printed[3] = <<default_header>>
    /\ Len(EventLines(printed)) = 1

\* C14: with the clock never going backwards, the elapsed seconds of every
\* span are >= 0, do not decrease from one state to the next while the span
\* is open, and stay the same once it is closed.
C14_Elapsed ==
    /\ [](\A i \in DOMAIN events : seconds(events[i], now) >= 0)
    /\ [][ \A i \in DOMAIN events \cap DOMAIN events' :
              /\ is_open(events[i]) =>
                    seconds(events'[i], now') >= seconds(events[i], now)
              /\ ~ is_open(events[i]) =>
                    seconds(events'[i], now') = seconds(events[i], now) ]_vars

\* a span closed before the clock moved on, beside a span still open
C14_Witness ==
    \E i, j \in DOMAIN events :
        /\ ~ is_open(events[i])
        /\ events[i].end < now
        /\ is_open(events[j])
        /\ seconds(events[j], now) > 0

\* C15: the switches stay as constructed; start() prints "Started: <name>..."
\* exactly when ud_start is true, an end() that closed a span prints
\* "Finished: <name of that span>." exactly when ud_end is true, and neither
\* prints anything otherwise.
C15_Notices ==
    [][ /\ ud_start' = ud_start
        /\ ud_end' = ud_end
        /\ \A name \in Names : start(name) =>
              printed' = IF ud_start
                         THEN << <<"Started: ", name, "...">> >>
                         ELSE << >>
        /\ end =>
              printed' = IF ~ raised' /\ ud_end
                         THEN << <<"Finished: ",
                                   events[MaxOf(OpenIds(events))].name, ".">> >>
                         ELSE << >> ]_vars

\* ud_start false, ud_end true: start("outer"), start("inner"), end()
C15_Witness ==
    /\ ~ ud_start
    /\ ud_end
    /\ call.op = "end"
    /\ ~ raised
    /\ event_count(events) = 2
    /\ events[1].name = "outer" /\ is_open(events[1])
    /\ events[2].name = "inner" /\ ~ is_open(events[2])
    /\ printed = << <<"Finished: ", "inner", ".">> >>

\* C16: with two or more spans open, an end() succeeds and leaves the parent
\* of the span it closed as the nearest open span; an end() that follows a
\* successful end() while a span is open succeeds too, closes that nearest
\* open span and touches no span closed before; end() raises only when no
\* span at all is open.
C16_SecondEndClosesParent ==
    [][ /\ (end /\ Cardinality(OpenIds(events)) >= 2) =>
              LET m == MaxOf(OpenIds(events))
              IN  /\ ~ raised'
                  /\ OpenIds(events') = OpenIds(events) \ {m}
                  /\ events[m].pid \in OpenIds(events')
                  /\ MaxOf(OpenIds(events')) = events[m].pid
        /\ (end /\ call.op = "end" /\ ~ raised /\ OpenIds(events) # {}) =>
              /\ ~ raised'
              /\ OpenIds(events') = OpenIds(events) \ {MaxOf(OpenIds(events))}
              /\ \A i \in DOMAIN events \ OpenIds(events) :
                    events'[i] = events[i]
        /\ (end /\ raised') => OpenIds(events) = {} ]_vars

\* three spans nested; two end() calls closed span 3 and then its parent 2
C16_Witness ==
    /\ call.op = "end"
    /\ ~ raised
    /\ event_count(events) = 3
    /\ events[2].pid = 1 /\ events[3].pid = 2
    /\ is_open(events[1]) /\ ~ is_open(events[2]) /\ ~ is_open(events[3])
    /\ events[3].end <= events[2].end

\* ---- the explicit-stack registry of the design notes -----------------------
\* Its state A is [stack, spans]: the ids of the open spans, last opened last,
\* and the spans by id.
ref_init == [stack |-> << >>, spans |-> << >>]

\* start: id = number of spans + 1, depth = stack height + 1, parent = old top
ref_start(A) ==
    LET id == Cardinality(DOMAIN A.spans) + 1
        span == [uid |-> id,
                 hrchy |-> Len(A.stack) + 1,
                 pid |-> IF A.stack = << >> THEN None ELSE A.stack[Len(A.stack)],
                 open |-> TRUE]
    IN  [stack |-> Append(A.stack, id),
         spans |-> [k \in DOMAIN A.spans \cup {id} |->
                       IF k = id THEN span ELSE A.spans[k]]]

\* end fails on an empty stack
ref_end_fails(A) == A.stack = << >>

\* end: pop the top and close it
ref_end(A) ==
    LET top == A.stack[Len(A.stack)]
    IN  [stack |-> SubSeq(A.stack, 1, Len(A.stack) - 1),
         spans |-> [A.spans EXCEPT ![top].open = FALSE]]

\* report: the registry is cleared
ref_report(A) == ref_init

RECURSIVE Ascending(_)
\* the elements of a finite set of numbers, in ascending order
Ascending(S) ==
    IF S = {} THEN << >>
    ELSE Append(Ascending(S \ {MaxOf(S)}), MaxOf(S))

\* the explicit-stack state that stands for a state of the scan-based
\* registry: the open events as the stack, the events as the spans
AsStack(ev) ==
    [stack |-> Ascending(OpenIds(ev)),
     spans |-> [i \in DOMAIN ev |->
                   [uid |-> ev[i].uid, hrchy |-> ev[i].hrchy,
                    pid |-> ev[i].pid, open |-> is_open(ev[i])]]]

\* C17: run side by side from the empty registry, the scan-based registry
\* and the explicit-stack registry stay in step: every start() gives the new
\* span the same id, depth and parent, every end() closes the same span or
\* fails in both, every print_summary clears both, and no other step moves
\* either.
C17_ScanMatchesStack ==
    [][ /\ start_step => AsStack(events') = ref_start(AsStack(events))
        /\ end =>
              /\ raised' <=> ref_end_fails(AsStack(events))
              /\ IF raised'
                 THEN AsStack(events') = AsStack(events)
                 ELSE AsStack(events') = ref_end(AsStack(events))
        /\ print_summary_step => AsStack(events') = ref_report(AsStack(events))
        /\ ~ (start_step \/ end \/ print_summary_step) =>
              AsStack(events') = AsStack(events) ]_vars

\* three spans nested, the innermost popped: the stack holds spans 1 and 2
C17_Witness ==
    /\ call.op = "end"
    /\ ~ raised
    /\ event_count(events) = 3
    /\ events[3].pid = 2
    /\ AsStack(events).stack = <<1, 2>>

\* C18: an open span stays open, and as it was, through every step but an
\* end() that selects it (it is then the open span of highest id) and a
\* print_summary; print_summary gives it a line like any other span, with the
\* time elapsed since its start, and then discards it with the registry.
C18_OpenSpanStaysOpen ==
    [][ /\ \A i \in OpenIds(events) :
              (~ (end /\ i = MaxOf(OpenIds(events))) /\ ~ print_summary_step) =>
                  /\ i \in DOMAIN events'
                  /\ events'[i] = events[i]
        /\ print_summary_step =>
              LET lines == EventLines(printed')
              IN  /\ events' = << >>
                  /\ Len(lines) = event_count(events)
                  /\ \A i \in OpenIds(events) :
                        /\ lines[i][events[i].hrchy] = events[i].name
                        /\ lines[i][events[i].hrchy + 2] =
                              format_1f(now - events[i].start) ]_vars

\* span 1 is still open after two later spans were started and ended, an
\* error was recorded and the clock moved on
C18_Witness ==
    /\ event_count(events) = 3
    /\ is_open(events[1]) /\ ~ is_open(events[2]) /\ ~ is_open(events[3])
    /\ events[2].pid = 1 /\ events[3].pid = 1
    /\ Len(errors) = 1
    /\ events[1].start < now

\* C19: a span with a parent started no earlier than its parent; when both
\* are closed it ended no later than its parent; and its elapsed time, as
\* a summary printed now would show it, is at most its parent's.
C19_ChildWithinParent ==
    \A i \in DOMAIN events :
        (events[i].pid # None /\ events[i].pid \in DOMAIN events) =>
            LET child == events[i]
                parent == events[events[i].pid]
            IN  /\ child.start >= parent.start
                /\ (~ is_open(child) /\ ~ is_open(parent)) =>
                      child.end <= parent.end
                /\ seconds(child, now) <= seconds(parent, now)

\* outer started, the clock moved, inner started and ended, outer ended
C19_Witness ==
    /\ event_count(events) = 2
    /\ events[2].pid = 1
    /\ ~ is_open(events[1]) /\ ~ is_open(events[2])
    /\ events[2].start > events[1].start
    /\ seconds(events[2], now) < seconds(events[1], now)

\* C20: start() and end() leave the error log as it was; log_err leaves the
\* events as they were; a successful end() keeps the ids of the registry and
\* changes one event only, in nothing but its end time, from None to a time.
C20_SpansAndErrorsApart ==
    [][ /\ (start_step \/ end) => errors' = errors
        /\ (\E method \in Methods, data_id \in DataIDs, info \in Infos :
               log_err(method, data_id, info)) => events' = events
        /\ (end /\ ~ raised') =>
              /\ DOMAIN events' = DOMAIN events
              /\ \E m \in DOMAIN events :
                    /\ events[m].end = None
                    /\ events'[m].end # None
                    /\ events'[m] = [events[m] EXCEPT !.end = events'[m].end]
                    /\ \A i \in DOMAIN events \ {m} : events'[i] = events[i] ]_vars

\* an error recorded between the end of one span and the end of the next
C20_Witness ==
    /\ call.op = "log_err"
    /\ Len(errors) = 1
    /\ event_count(events) = 2
    /\ ~ is_open(events[1]) /\ is_open(events[2])
    /\ events[2].pid = None

\* some span of some timer has a parent that another caller started
CrossParent ==
    \E r \in Callers : \E i \in DOMAIN mt.regs[r] :
        /\ mt.regs[r][i].pid # None
        /\ mt.owner[r][mt.regs[r][i].pid] # mt.owner[r][i]

\* some span of some timer was ended by a caller that did not start it
CrossClose ==
    \E r \in Callers : \E i \in DOMAIN mt.regs[r] :
        /\ mt.closer[r][i] # 0
        /\ mt.closer[r][i] # mt.owner[r][i]

\* C21: with a timer per caller, no span ever has a parent started by the
\* other caller and no end() ever closes a span the other caller started,
\* however the two callers' calls interleave; with one shared timer both
\* happen (C21_Witness).
C21_SeparateTimersNoCrossing ==
    mt.mode = "separate" =>
        /\ ~ CrossParent
        /\ ~ CrossClose
        /\ ~ mt.raised
        /\ \A c \in Callers :
              Cardinality(OpenIds(mt.regs[c])) = mt.pending[c]

\* one shared timer: caller 1 starts, caller 2 starts (under caller 1's
\* span), caller 1 ends (and closes caller 2's span)
C21_Witness ==
    /\ mt.mode = "shared"
    /\ CrossParent
    /\ CrossClose
    /\ mt.owner[1] = <<1, 2>>
    /\ mt.closer[1] = <<0, 1>>

\* C22 as stated: a helper that meets a missing or malformed field adds
\* exactly one record to the error log and returns without raising.
C22_HelpersLogAndReturn ==
    [][ \A row \in Rows :
            /\ (get_categories(row) /\ row.categories \in {"missing", "bad"}) =>
                  (Len(errors') = Len(errors) + 1 /\ ~ raised')
            /\ (\E fld \in Flds : get_item(row, fld) /\ row[fld] = "missing") =>
                  (Len(errors') = Len(errors) + 1 /\ ~ raised')
            /\ (get_price(row) /\ row.price \in {"missing", "bad"}) =>
                  (Len(errors') = Len(errors) + 1 /\ ~ raised')
            /\ (\E coord \in Coords :
                   get_coord(row, coord) /\ row.coordinates \in {"missing", "bad"}) =>
                  (Len(errors') = Len(errors) + 1 /\ ~ raised') ]_vars

RECURSIVE HasClosedAncestor(_, _)
HasClosedAncestor(ev, i) ==
    /\ ev[i].pid # None
    /\ \/ ~ is_open(ev[ev[i].pid])
       \/ HasClosedAncestor(ev, ev[i].pid)

\* C23: in every reachable state the open spans form one ancestor chain: the
\* parent of an open span is open, a span with a closed ancestor is closed,
\* and the open spans in ascending id order have depths 1, 2, ..., k, the
\* first top-level and each next one the child of the one before.
C23_OpenSpansFormOneChain ==
    LET open == Ascending(OpenIds(events))
    IN  /\ \A i \in OpenIds(events) :
              events[i].pid # None => events[i].pid \in OpenIds(events)
        /\ \A i \in DOMAIN events :
              HasClosedAncestor(events, i) => ~ is_open(events[i])
        /\ \A k \in 1..Len(open) :
              /\ events[open[k]].hrchy = k
              /\ events[open[k]].pid = IF k = 1 THEN None ELSE open[k - 1]

C23_Witness ==
    /\ event_count(events) = 3
    /\ OpenIds(events) = {2, 3}
    /\ events[2].pid = None
    /\ events[3].pid = 2
    /\ events[3].hrchy = 2

\* C24: an end() that fails changes nothing: the spans with their open or
\* closed status, the error log, the flags and the clock are as before, no
\* finish notice is emitted, and what the next start(), end() or summary
\* would do is what it would have done without the failed call.
C24_FailedEndChangesNothing ==
    [][ (end /\ raised') =>
            /\ events' = events
            /\ errors' = errors
            /\ ud_start' = ud_start /\ ud_end' = ud_end /\ now' = now
            /\ printed' = << >>
            /\ prior_open_event_id(events') = prior_open_event_id(events)
            /\ \A name \in Names :
                  registry_start(events', name, now') =
                      registry_start(events, name, now)
            /\ \A header \in Headers :
                  summary_text(events', errors', header, now') =
                      summary_text(events, errors, header, now) ]_vars

C24_Witness ==
    /\ call.op = "end" /\ raised
    /\ ud_end
    /\ printed = << >>
    /\ event_count(events) = 2
    /\ OpenIds(events) = {}
    /\ events[2].end < now
    /\ Len(errors) = 1

====
